---- MODULE Spec2Model ----
(***************************************************************************)
(* A model of ECFRService (server/app/services/ecfr_service.py): the       *)
(* Structure Parser, the Content Extractor's clean-up, the Agency          *)
(* Attributor, the Historical Aggregator and the Analysis Orchestrator.    *)
(*                                                                         *)
(* Text is a sequence of one-character strings.  A StructureNode is a      *)
(* record [type, reserved, identifier, label, label_description,           *)
(* children]; children is a sequence of StructureNodes.                    *)
(***************************************************************************)
EXTENDS Integers, Sequences, FiniteSets, TLC

VARIABLES
    pc,          \* position of the call under study
    call,        \* the function called and its arguments
    upstream,    \* the upstream responses the call has consumed
    ret,         \* what the call returned (read only once pc says so)
    frame,       \* the locals of the loop the call is in
    latest_date, structure, content, word_count, avg_words_per_section,
    agency_counts, versions, corrections, historical_data,  \* analyze_title's locals
    requests     \* the upstream requests analyze_title has issued, in order

locals == <<latest_date, structure, content, word_count, avg_words_per_section,
            agency_counts, versions, corrections, historical_data>>
vars == <<pc, call, upstream, ret, frame, locals, requests>>

\* ---------------------------------------------------------------- bounds
\* Nodes of a generated StructureNode tree, the root included.
MaxNodes == 4
\* Characters of a raw text handed to the clean-up.
MaxRawLen == 4
\* Tokens of a text handed to the Agency Attributor.
MaxTokens == 4
\* Version dates of a title.
MaxDates == 3

\* ---------------------------------------------------------------- helpers
RECURSIVE SumSeq(_)
SumSeq(s) == IF s = <<>> THEN 0 ELSE Head(s) + SumSeq(Tail(s))

RECURSIVE Flatten(_)
Flatten(ss) == IF ss = <<>> THEN <<>> ELSE Head(ss) \o Flatten(Tail(ss))

Max(a, b) == IF a >= b THEN a ELSE b

\* Python's None, and every other falsy document ({}), as a node of its own type.
Null == [type |-> "null", reserved |-> FALSE, identifier |-> <<>>, label |-> <<>>,
         label_description |-> <<>>, children |-> <<>>]

Node(t, r, c) == [type |-> t, reserved |-> r, identifier |-> <<>>, label |-> <<>>,
                  label_description |-> <<>>, children |-> c]

\* ------------------------------------------------------- Structure Parser
RECURSIVE parse_structure_count_sections(_)
\* The mutant: a reserved section counts like any other.
count_sections_reserved_too(node) ==
    IF node.type = "section"
    THEN 1
    ELSE SumSeq([i \in 1..Len(node.children) |->
                    parse_structure_count_sections(node.children[i])])

parse_structure_count_sections(node) ==
    IF node.type = "section" /\ ~node.reserved
    THEN 1
    ELSE SumSeq([i \in 1..Len(node.children) |->
                    parse_structure_count_sections(node.children[i])])

RECURSIVE get_parts(_)
\* The mutant: a listed part's children are searched for parts as well.
get_parts_nested(node) ==
    LET below == Flatten([i \in 1..Len(node.children) |-> get_parts(node.children[i])])
    IN  IF node.type = "part" /\ ~node.reserved
        THEN <<[number |-> node.identifier, name |-> node.label_description,
                sections |-> parse_structure_count_sections(node)]>> \o below
        ELSE below

\* The mutant: a reserved part is listed like any other.
get_parts_reserved_too(node) ==
    IF node.type = "part"
    THEN <<[number |-> node.identifier, name |-> node.label_description,
            sections |-> parse_structure_count_sections(node)]>>
    ELSE Flatten([i \in 1..Len(node.children) |-> get_parts(node.children[i])])

get_parts(node) ==
    IF node.type = "part" /\ ~node.reserved
    THEN <<[number |-> node.identifier, name |-> node.label_description,
            sections |-> parse_structure_count_sections(node)]>>
    ELSE Flatten([i \in 1..Len(node.children) |-> get_parts(node.children[i])])

parse_structure(structure_data) ==
    IF structure_data.type = "null"
    THEN [name |-> <<>>, parts |-> <<>>, total_parts |-> 0, total_sections |-> 0]
    ELSE LET parts == get_parts(structure_data)
         IN  [name |-> structure_data.label_description,
              parts |-> parts,
              total_parts |-> Cardinality({i \in 1..Len(parts) : parts[i].sections > 0}),
              total_sections |-> SumSeq([i \in 1..Len(parts) |-> parts[i].sections])]

\* ------------------------------------------------------ Content Extractor
\* The character classes of Python's re: \s, \w, and the rest (punctuation).
SpaceChars == {" ", "\n"}
PunctChars == {",", ".", "$"}
IsSpace(c) == c \in SpaceChars
IsWord(c) == c \notin SpaceChars \cup PunctChars
IsPunct(c) == c \in PunctChars

RECURSIVE DropSpaces(_)
DropSpaces(s) == IF s # <<>> /\ IsSpace(Head(s)) THEN DropSpaces(Tail(s)) ELSE s

Reverse(s) == [i \in 1..Len(s) |-> s[Len(s) + 1 - i]]

\* re.sub(r'\s+', ' ', content)
RECURSIVE CollapseWhitespace(_)
CollapseWhitespace(s) ==
    IF s = <<>> THEN <<>>
    ELSE IF IsSpace(Head(s)) THEN <<" ">> \o CollapseWhitespace(DropSpaces(s))
    ELSE <<Head(s)>> \o CollapseWhitespace(Tail(s))

\* re.sub(r'[^\w\s]', ' ', content)
RemovePunctuation(s) == [i \in 1..Len(s) |-> IF IsPunct(s[i]) THEN " " ELSE s[i]]

\* content.strip()
Strip(s) == Reverse(DropSpaces(Reverse(DropSpaces(s))))

\* The mutant: punctuation is removed before whitespace runs are collapsed.
CleanUpPunctuationFirst(s) == Strip(CollapseWhitespace(RemovePunctuation(s)))

\* "Clean up the text": the three steps in the order of the code.
CleanUpText(s) == Strip(RemovePunctuation(CollapseWhitespace(s)))

\* len(re.findall(r'\b\w+\b', text)): the maximal runs of word characters.
WordCount(s) ==
    Cardinality({i \in 1..Len(s) : IsWord(s[i]) /\ (i = 1 \/ ~IsWord(s[i - 1]))})

\* ' '.join(filter(None, parts))
RECURSIVE JoinNonEmpty(_)
JoinNonEmpty(parts) ==
    IF parts = <<>> THEN <<>>
    ELSE IF Head(parts) = <<>> THEN JoinNonEmpty(Tail(parts))
    ELSE LET rest == JoinNonEmpty(Tail(parts))
         IN  IF rest = <<>> THEN Head(parts) ELSE Head(parts) \o <<" ">> \o rest

\* extract_text: label and label_description of every node, in document order (the
\* structure endpoint's nodes carry no 'text' or 'content', which yield '').
RECURSIVE extract_text(_)
extract_text(node) ==
    <<node.label, node.label_description, <<>>, <<>> >>
        \o Flatten([i \in 1..Len(node.children) |-> extract_text(node.children[i])])

\* Lines 208-215: the text of a fetched document.
DocumentContent(structure_data) == CleanUpText(JoinNonEmpty(extract_text(structure_data)))

RECURSIVE TextsOfLen(_, _)
TextsOfLen(alphabet, n) ==
    IF n = 0 THEN {<<>>}
    ELSE {<<c>> \o t : c \in alphabet, t \in TextsOfLen(alphabet, n - 1)}
TextsUpTo(alphabet, n) == UNION {TextsOfLen(alphabet, k) : k \in 0..n}

\* ------------------------------------------------------- Agency Attributor
\* A Python dict: its items, [key, value], in insertion order.
DictHas(d, k) == \E i \in 1..Len(d) : d[i].key = k
DictGet(d, k, default) ==
    IF DictHas(d, k) THEN d[CHOOSE i \in 1..Len(d) : d[i].key = k].value ELSE default
DictSet(d, k, v) ==
    IF DictHas(d, k)
    THEN [i \in 1..Len(d) |-> IF d[i].key = k THEN [key |-> k, value |-> v] ELSE d[i]]
    ELSE Append(d, [key |-> k, value |-> v])
DictKeys(d) == {d[i].key : i \in 1..Len(d)}

\* A Python float that the attribution produces, as the exact fraction n / d.
RECURSIVE GCD(_, _)
GCD(a, b) == IF b = 0 THEN a ELSE GCD(b, a % b)
Rat(n, d) == LET g == GCD(n, d) IN [n |-> n \div g, d |-> d \div g]
RatAdd(x, y) == Rat(x.n * y.d + y.n * x.d, x.d * y.d)
Zero == Rat(0, 1)

\* round(x): to the nearest integer, a tie to the even one.
round(x) ==
    LET q == x.n \div x.d
        r == x.n % x.d
    IN  IF 2 * r < x.d THEN q
        ELSE IF 2 * r > x.d THEN q + 1
        ELSE IF q % 2 = 0 THEN q ELSE q + 1

\* get_agencies, lines 236-254: the roster and its children, keyed by short_name.
RECURSIVE process_agency(_, _), process_agencies(_, _)
process_agency(agency_map, agency) ==
    process_agencies(
        DictSet(agency_map, agency.short_name,
                [variations |-> <<agency.name, agency.short_name, agency.display_name>>,
                 name |-> agency.display_name,
                 cfr_references |-> agency.cfr_references]),
        agency.children)
process_agencies(agency_map, list) ==
    IF list = <<>> THEN agency_map
    ELSE process_agencies(process_agency(agency_map, Head(list)), Tail(list))

\* get_agencies on the roster endpoint's response.
get_agencies(response) ==
    IF ~response.ok THEN <<>> ELSE process_agencies(<<>>, response.agencies)

\* re.IGNORECASE on the letters of the model.
Lower(c) == IF c = "A" THEN "a" ELSE IF c = "B" THEN "b" ELSE c

\* \b at the gap before text[i].
WordAt(text, i) == i >= 1 /\ i <= Len(text) /\ IsWord(text[i])
Boundary(text, i) == WordAt(text, i - 1) # WordAt(text, i)

\* r'\b' + re.escape(variation) + r'\b' matches at text[i].
MatchAt(text, variation, i) ==
    /\ i + Len(variation) - 1 <= Len(text)
    /\ \A k \in 1..Len(variation) : Lower(text[i + k - 1]) = Lower(variation[k])
    /\ Boundary(text, i)
    /\ Boundary(text, i + Len(variation))

\* len(re.findall(pattern, section, re.IGNORECASE)) from text[i] on: the matches,
\* left to right, none overlapping another.
RECURSIVE CountMatches(_, _, _)
CountMatches(text, variation, i) ==
    IF i > Len(text) THEN 0
    ELSE IF MatchAt(text, variation, i)
         THEN 1 + CountMatches(text, variation, i + Len(variation))
         ELSE CountMatches(text, variation, i + 1)

\* Lines 306-312: an agency's mentions in a section, over its non-empty variations.
mention_count(data, section) ==
    SumSeq([v \in 1..Len(data.variations) |->
               IF data.variations[v] = <<>> THEN 0
               ELSE CountMatches(section, data.variations[v], 1)])

\* The section marker of line 287: two letters (both \w; they stand for the two
\* characters of the pattern), \s*, \d+ and a period, after any run of "\n".
RECURSIVE SkipWhile(_, _, _)
SkipWhile(text, i, chars) ==
    IF i <= Len(text) /\ text[i] \in chars THEN SkipWhile(text, i + 1, chars) ELSE i
MarkerAt(text, i) ==
    LET a == SkipWhile(text, i, {"\n"})
        b == SkipWhile(text, a + 2, SpaceChars)
        c == SkipWhile(text, b, {"1"})
    IN  /\ a + 1 <= Len(text) /\ text[a] = "yo" /\ text[a + 1] = "ngo"
        /\ c > b /\ c <= Len(text) /\ text[c] = "."
\* \n* may give characters back: the look-ahead holds at i when the marker follows
\* any run of newlines that starts at i.
SplitPoints(text) == {i \in 1..Len(text) : MarkerAt(text, i)}

\* re.split(r'(?=\n*<marker>\s*\d+\.)', content): the pieces between the places
\* where the look-ahead holds.
RECURSIVE SplitFrom(_, _, _)
SplitFrom(text, start, points) ==
    IF points = {} THEN <<SubSeq(text, start, Len(text))>>
    ELSE LET q == CHOOSE x \in points : \A y \in points : x <= y
         IN  <<SubSeq(text, start, q - 1)>> \o SplitFrom(text, q, points \ {q})
split_sections(text) == SplitFrom(text, 1, SplitPoints(text))

\* The mutant: the segment goes to the agency mentioned most (to each of them on a tie).
agency_words_winner_takes_all(mentions, section_mentions, section_words) ==
    IF \A j \in 1..Len(section_mentions) : section_mentions[j].value <= mentions
    THEN Rat(section_words, 1) ELSE Zero

\* Line 324: (mentions / total_section_mentions) * section_words.
agency_words(mentions, section_mentions, section_words) ==
    LET total_section_mentions ==
            SumSeq([j \in 1..Len(section_mentions) |-> section_mentions[j].value])
    IN  Rat(mentions * section_words, total_section_mentions)

\* agency_mentions[k] = agency_mentions.get(k, 0) + v, for every item of a dict.
RECURSIVE AddMentions(_, _)
AddMentions(agency_mentions, items) ==
    IF items = <<>> THEN agency_mentions
    ELSE AddMentions(DictSet(agency_mentions, Head(items).key,
                             DictGet(agency_mentions, Head(items).key, 0) + Head(items).value),
                     Tail(items))
RECURSIVE AddWords(_, _)
AddWords(agency_word_counts, items) ==
    IF items = <<>> THEN agency_word_counts
    ELSE AddWords(DictSet(agency_word_counts, Head(items).key,
                          RatAdd(DictGet(agency_word_counts, Head(items).key, Zero),
                                 Head(items).value)),
                  Tail(items))

\* The mutant: every agency of the roster is a candidate, whatever title it refers to.
relevant_agencies_unfiltered(agencies, title_number) == agencies

\* Lines 273-279: the agencies with a reference to the title.
relevant_agencies(agencies, title_number) ==
    SelectSeq(agencies,
              LAMBDA item : \E r \in 1..Len(item.value.cfr_references) :
                               item.value.cfr_references[r] = title_number)

\* Lines 267-291: the locals before the loop over the sections.
attributor_frame(title_number, text, response) ==
    LET agencies == get_agencies(response)
    IN  [agencies |-> agencies,
         relevant_agencies |-> relevant_agencies(agencies, title_number),
         sections |-> split_sections(text),
         i |-> 1,
         agency_mentions |-> <<>>,
         agency_word_counts |-> <<>>,
         log |-> <<>>]

\* Lines 293-325: one pass of the loop, over sections[i].  log keeps, per section
\* that was not skipped, its word count, its mentions and the words credited.
process_section(f) ==
    LET section == f.sections[f.i]
        section_words == WordCount(section)
        rel == f.relevant_agencies
        counted == [j \in 1..Len(rel) |->
                       [key |-> rel[j].key, value |-> mention_count(rel[j].value, section)]]
        section_mentions == SelectSeq(counted, LAMBDA item : item.value > 0)
        credits == [j \in 1..Len(section_mentions) |->
                       [key |-> section_mentions[j].key,
                        value |-> agency_words(section_mentions[j].value,
                                               section_mentions, section_words)]]
    IN  IF Strip(section) = <<>> \/ section_words = 0
        THEN [f EXCEPT !.i = @ + 1]
        ELSE [f EXCEPT !.i = @ + 1,
                       !.agency_mentions = AddMentions(@, section_mentions),
                       !.agency_word_counts = AddWords(@, credits),
                       !.log = Append(@, [section_words |-> section_words,
                                          section_mentions |-> section_mentions,
                                          credits |-> credits])]

\* Lines 327-342: the rounded counts of the agencies mentioned, by display name.
RECURSIVE final_counts_from(_, _, _)
final_counts_from(f, items, final_counts) ==
    IF items = <<>> THEN final_counts
    ELSE final_counts_from(f, Tail(items),
            IF Head(items).value > 0
            THEN DictSet(final_counts,
                         DictGet(f.agencies, Head(items).key, <<>>).name,
                         round(DictGet(f.agency_word_counts, Head(items).key, Zero)))
            ELSE final_counts)
final_counts(f) == final_counts_from(f, f.agency_mentions, <<>>)

\* Line 269: nothing to attribute.
attributor_returns_early(f, text) == text = <<>> \/ f.agencies = <<>>

RECURSIVE run_sections(_)
run_sections(f) == IF f.i > Len(f.sections) THEN f ELSE run_sections(process_section(f))

\* get_agency_word_counts(title_number, content), given the roster's response.
get_agency_word_counts(title_number, text, response) ==
    LET f == attributor_frame(title_number, text, response)
    IN  IF attributor_returns_early(f, text) THEN <<>> ELSE final_counts(run_sections(f))

\* ---------------------------------------------------- Historical Aggregator
\* ECFRService.count_sections: every node of type 'section' below a truthy node.
RECURSIVE count_sections(_)
count_sections(data) ==
    IF data.type = "null" THEN 0
    ELSE (IF data.type = "section" THEN 1 ELSE 0)
         + SumSeq([i \in 1..Len(data.children) |-> count_sections(data.children[i])])

\* ECFRService.count_parts: every node of type 'part' below a truthy node.
RECURSIVE count_parts(_)
count_parts(data) ==
    IF data.type = "null" THEN 0
    ELSE (IF data.type = "part" THEN 1 ELSE 0)
         + SumSeq([i \in 1..Len(data.children) |-> count_parts(data.children[i])])

\* next(t for t in titles if t.number == title_number, None) on the titles response;
\* a title is [number, latest_issue_date, version_dates], no date is 0.
NoTitle == [number |-> 0, latest_issue_date |-> 0, version_dates |-> <<>>]
title_info(titles_response, title_number) ==
    LET found == SelectSeq(titles_response.titles, LAMBDA t : t.number = title_number)
    IN  IF found = <<>> THEN NoTitle ELSE Head(found)

\* Lines 376-379: the version dates not before the cutoff.
relevant_dates(info, cutoff_date) == SelectSeq(info.version_dates, LAMBDA d : d >= cutoff_date)

\* The mutant: the points stay in the order they were fetched in.
sort_by_date_skipped(points) == points

\* Line 408: list.sort(key = date), which keeps equal dates in their order.
RECURSIVE sort_by_date(_)
sort_by_date(points) ==
    IF points = <<>> THEN <<>>
    ELSE LET x == points[Len(points)]
             rest == sort_by_date(SubSeq(points, 1, Len(points) - 1))
         IN  SelectSeq(rest, LAMBDA y : y.date <= x.date) \o <<x>>
                 \o SelectSeq(rest, LAMBDA y : y.date > x.date)

\* Lines 384-405: one pass of the loop; a response is [ok, raises, data].
fetch_snapshot(f, response) ==
    IF response.ok /\ ~response.raises
    THEN [f EXCEPT !.i = @ + 1,
                   !.historical_data =
                       Append(@, [date |-> f.relevant_dates[f.i],
                                  total_sections |-> count_sections(response.data),
                                  total_parts |-> count_parts(response.data)])]
    ELSE [f EXCEPT !.i = @ + 1]

\* Lines 407-420: sort, then one list per field.
historical_result(f) ==
    LET sorted == sort_by_date(f.historical_data)
    IN  [dates |-> [i \in 1..Len(sorted) |-> sorted[i].date],
         section_counts |-> [i \in 1..Len(sorted) |-> sorted[i].total_sections],
         part_counts |-> [i \in 1..Len(sorted) |-> sorted[i].total_parts]]

NoHistory == [dates |-> <<>>, section_counts |-> <<>>, part_counts |-> <<>>]

\* Lines 355-372: no titles data, or no such title.
historical_returns_early(titles_response, title_number) ==
    ~titles_response.ok \/ title_info(titles_response, title_number) = NoTitle

historical_frame(titles_response, title_number, cutoff_date) ==
    [relevant_dates |-> relevant_dates(title_info(titles_response, title_number), cutoff_date),
     i |-> 1, historical_data |-> <<>>]

RECURSIVE fetch_snapshots(_, _)
fetch_snapshots(f, responses) ==
    IF f.i > Len(f.relevant_dates) THEN f
    ELSE fetch_snapshots(fetch_snapshot(f, responses[f.i]), responses)

\* get_historical_changes(title_number), given the cutoff date (now - 30 * months
\* days), the titles response and one snapshot response per relevant date.
get_historical_changes(title_number, cutoff_date, titles_response, responses) ==
    IF historical_returns_early(titles_response, title_number) THEN NoHistory
    ELSE historical_result(
             fetch_snapshots(historical_frame(titles_response, title_number, cutoff_date),
                             responses))

\* ----------------------------------------------------- Upstream Client
\* A response that was never asked for, and the answer of a failed request.
NoResponse == [ok |-> FALSE, raises |-> FALSE, data |-> Null]

\* get_latest_update_date: latest_issue_date of the title, None (0) without it.
get_latest_update_date(title_number, titles_response) ==
    IF ~titles_response.ok THEN 0
    ELSE title_info(titles_response, title_number).latest_issue_date

\* Lines 77-96 and 164-177: the titles data names a date for the title.
has_latest_date(title_number, titles_response) ==
    /\ titles_response.ok
    /\ title_info(titles_response, title_number) # NoTitle
    /\ title_info(titles_response, title_number).latest_issue_date # 0

\* get_title_structure: None ([none |-> TRUE]) or the parsed structure.
get_title_structure(title_number, titles_response, response) ==
    IF has_latest_date(title_number, titles_response) /\ response.ok /\ ~response.raises
    THEN [none |-> FALSE, value |-> parse_structure(response.data)]
    ELSE [none |-> TRUE, value |-> parse_structure(Null)]

\* get_full_title_content: '' or the cleaned text of the document.
get_full_title_content(title_number, titles_response, response) ==
    IF has_latest_date(title_number, titles_response) /\ response.ok /\ ~response.raises
    THEN DocumentContent(response.data)
    ELSE <<>>

\* get_title_versions: the versions, or the failure it raises.
get_title_versions(response) ==
    IF response.ok
    THEN [raised |-> FALSE, error |-> "", value |-> response.data]
    ELSE [raised |-> TRUE, error |-> "Failed to fetch title versions: " \o response.error,
          value |-> <<>>]

\* Line 139: corrections.sort(key = error_corrected, reverse = True), equal keys
\* keeping their order.
RECURSIVE sort_corrections(_)
sort_corrections(list) ==
    IF list = <<>> THEN <<>>
    ELSE LET x == list[Len(list)]
             rest == sort_corrections(SubSeq(list, 1, Len(list) - 1))
         IN  SelectSeq(rest, LAMBDA y : y.error_corrected >= x.error_corrected) \o <<x>>
                 \o SelectSeq(rest, LAMBDA y : y.error_corrected < x.error_corrected)

\* The mutant: a failed corrections request raises.
get_title_corrections_raising(response) ==
    IF ~response.ok
    THEN [raised |-> TRUE, error |-> "Failed to fetch corrections", value |-> <<>>]
    ELSE [raised |-> FALSE, error |-> "", value |-> <<>>]

\* get_title_corrections: [] on any failure (a correction without cfr_references
\* raises IndexError at line 145, which line 155 catches), else the corrections,
\* latest first.
get_title_corrections(response) ==
    IF ~response.ok \/ response.raises
          \/ \E i \in 1..Len(response.data) : response.data[i].cfr_references = <<>>
    THEN [raised |-> FALSE, error |-> "", value |-> <<>>]
    ELSE LET sorted == sort_corrections(response.data)
         IN  [raised |-> FALSE, error |-> "",
              value |-> [i \in 1..Len(sorted) |->
                  [correction_date |-> sorted[i].error_corrected,
                   correction_text |-> <<sorted[i].corrective_action,
                                         sorted[i].cfr_references[1]>>,
                   fr_citation |-> sorted[i].fr_citation,
                   error_occurred |-> sorted[i].error_occurred]]]

\* ------------------------------------------------------ Analysis Orchestrator
\* str(title_number)
Digit(d) == <<"0", "1", "2", "3", "4", "5", "6", "7", "8", "9">>[d + 1]
RECURSIVE Decimal(_)
Decimal(n) == IF n < 10 THEN <<Digit(n)>> ELSE Decimal(n \div 10) \o <<Digit(n % 10)>>

\* round(x, 2), as a fraction of hundredths.
round2(x) == Rat(round(Rat(100 * x.n, x.d)), 100)

\* The mutant: the division is guarded by adding one section.
total_sections_plus_1(parsed) == parsed.total_sections + 1

\* Line 474: structure['total_sections'] or 1.
total_sections_or_1(parsed) ==
    IF parsed.total_sections = 0 THEN 1 ELSE parsed.total_sections

\* Lines 473-475: word count and average of a content.
word_count_of(text) == IF text # <<>> THEN WordCount(text) ELSE 0
average_of(words, parsed) == round2(Rat(words, total_sections_or_1(parsed)))

\* corrections[:5], as date and description.
recent_corrections(list) ==
    [i \in 1..(IF Len(list) < 5 THEN Len(list) ELSE 5) |->
        [date |-> list[i].correction_date, description |-> list[i].correction_text]]

\* The mutant: the failure report lacks the historical data.
error_report_without_history(title_number, e) ==
    [title_number |-> title_number,
     name |-> <<"T", "i", "t", "l", "e", " ">> \o Decimal(title_number),
     structure |-> [total_parts |-> 0, total_sections |-> 0, parts |-> <<>>],
     metrics |-> [word_count |-> 0, average_words_per_section |-> Zero,
                  agency_word_counts |-> <<>>],
     versions |-> [total_versions |-> 0, latest_update |-> 0],
     corrections |-> [total_corrections |-> 0, recent_corrections |-> <<>>],
     error |-> e]

\* The mutant: the failure report keeps what was computed before the failure.
error_report_with_partial_results(title_number, e) ==
    [title_number |-> title_number,
     name |-> <<"T", "i", "t", "l", "e", " ">> \o Decimal(title_number),
     structure |-> [total_parts |-> structure.total_parts,
                    total_sections |-> structure.total_sections,
                    parts |-> structure.parts],
     metrics |-> [word_count |-> word_count,
                  average_words_per_section |-> avg_words_per_section,
                  agency_word_counts |-> agency_counts],
     historical_data |-> [section_counts |-> <<>>, dates |-> <<>>, part_counts |-> <<>>],
     versions |-> [total_versions |-> 0, latest_update |-> 0],
     corrections |-> [total_corrections |-> 0, recent_corrections |-> <<>>],
     error |-> e]

\* Lines 527-557: the report of a failure.
error_report(title_number, e) ==
    [title_number |-> title_number,
     name |-> <<"T", "i", "t", "l", "e", " ">> \o Decimal(title_number),
     structure |-> [total_parts |-> 0, total_sections |-> 0, parts |-> <<>>],
     metrics |-> [word_count |-> 0, average_words_per_section |-> Zero,
                  agency_word_counts |-> <<>>],
     historical_data |-> [section_counts |-> <<>>, dates |-> <<>>, part_counts |-> <<>>],
     versions |-> [total_versions |-> 0, latest_update |-> 0],
     corrections |-> [total_corrections |-> 0, recent_corrections |-> <<>>],
     error |-> e]

\* Lines 491-523: the report, from analyze_title's locals.
analysis(title_number) ==
    [title_number |-> title_number,
     name |-> structure.name,
     structure |-> [total_parts |-> structure.total_parts,
                    total_sections |-> structure.total_sections,
                    parts |-> structure.parts],
     metrics |-> [word_count |-> word_count,
                  average_words_per_section |-> avg_words_per_section,
                  agency_word_counts |-> agency_counts],
     historical_data |-> [section_counts |-> historical_data.section_counts,
                          dates |-> historical_data.dates,
                          part_counts |-> historical_data.part_counts],
     versions |-> [total_versions |-> Len(historical_data.dates),
                   latest_update |-> latest_date],
     corrections |-> [total_corrections |-> Len(corrections),
                      recent_corrections |-> recent_corrections(corrections)]]

\* ------------------------------------------------- generated StructureNodes
NodeTypes == {"part", "section", "subpart"}

RECURSIVE TreesOfSize(_), ForestsOfSize(_)
TreesOfSize(n) ==
    {Node(t, r, c) : t \in NodeTypes, r \in BOOLEAN, c \in ForestsOfSize(n - 1)}
ForestsOfSize(k) ==
    IF k = 0 THEN {<<>>}
    ELSE UNION {{<<t>> \o f : t \in TreesOfSize(j), f \in ForestsOfSize(k - j)} : j \in 1..k}

\* Every node is identified by its path from the root.
RECURSIVE WithIdentifiers(_, _)
WithIdentifiers(node, path) ==
    [node EXCEPT !.identifier = path,
                 !.children = [i \in 1..Len(node.children) |->
                                 WithIdentifiers(node.children[i], Append(path, i))]]

\* The documents of the structure endpoint: a title node over at most MaxNodes - 1
\* further nodes.
StructureDocs ==
    {WithIdentifiers(Node("title", FALSE, f), <<>>) :
        f \in UNION {ForestsOfSize(k) : k \in 0..(MaxNodes - 1)}}

\* The tree's nodes, by path.
RECURSIVE Paths(_)
Paths(node) ==
    {<<>>} \cup UNION {{<<i>> \o p : p \in Paths(node.children[i])} :
                          i \in 1..Len(node.children)}

RECURSIVE NodeAt(_, _)
NodeAt(node, path) ==
    IF path = <<>> THEN node ELSE NodeAt(node.children[Head(path)], Tail(path))

IsPrefix(q, p) == Len(q) < Len(p) /\ SubSeq(p, 1, Len(q)) = q

PartNodes(tree) == {p \in Paths(tree) : NodeAt(tree, p).type = "part"}

\* The parts no enclosing part hides: not reserved, under no non-reserved part.
OutermostParts(tree) ==
    {p \in PartNodes(tree) :
        /\ ~NodeAt(tree, p).reserved
        /\ \A q \in PartNodes(tree) : IsPrefix(q, p) => NodeAt(tree, q).reserved}

\* The sum of count_sections over the nodes at the paths S.
RECURSIVE SectionsOver(_, _)
SectionsOver(tree, S) ==
    IF S = {} THEN 0
    ELSE LET p == CHOOSE q \in S : TRUE
         IN  parse_structure_count_sections(NodeAt(tree, p)) + SectionsOver(tree, S \ {p})

\* ------------------------------------------------------------ specifications
Idle ==
    /\ upstream = <<>> /\ frame = <<>>
    /\ latest_date = 0 /\ structure = Null /\ content = <<>> /\ word_count = 0
    /\ avg_words_per_section = 0 /\ agency_counts = <<>> /\ versions = <<>>
    /\ corrections = <<>> /\ historical_data = <<>> /\ requests = <<>>

\* parse_structure on every document.
InitParse ==
    /\ pc = "call"
    /\ call \in {[fn |-> "parse_structure", structure_data |-> d] :
                    d \in StructureDocs \cup {Null}}
    /\ ret = <<>>
    /\ Idle

ParseStructure ==
    /\ pc = "call" /\ call.fn = "parse_structure"
    /\ ret' = parse_structure(call.structure_data)
    /\ pc' = "returned"
    /\ UNCHANGED <<call, upstream, frame, locals, requests>>

SpecParse == InitParse /\ [][ParseStructure]_vars

\* The clean-up applied to a text, and again to its own output.
RawAlphabet == {"a", " ", "\n", ","}
InitCleanUp ==
    /\ pc = "call"
    /\ call \in {[fn |-> "clean_up", content |-> t] : t \in TextsUpTo(RawAlphabet, MaxRawLen)}
    /\ ret = <<>>
    /\ Idle

CleanUp ==
    /\ pc = "call" /\ call.fn = "clean_up"
    /\ ret' = Append(ret, CleanUpText(IF ret = <<>> THEN call.content ELSE ret[Len(ret)]))
    /\ pc' = IF Len(ret) = 1 THEN "returned" ELSE "call"
    /\ UNCHANGED <<call, upstream, frame, locals, requests>>

SpecCleanUp == InitCleanUp /\ [][CleanUp]_vars

\* get_agency_word_counts on texts made of a few tokens, one pass of its loop a step.
Words(n) == Flatten([k \in 1..n |-> <<"x", " ">>])
Tokens == {<<"A", " ">>, <<"b", " ">>, <<"a", "b", " ">>,
           <<"yo", "ngo", " ", "1", ".", " ">>, Words(27)}
RECURSIVE TokenTexts(_)
TokenTexts(n) ==
    IF n = 0 THEN {<<>>} ELSE {t \o rest : t \in Tokens, rest \in TokenTexts(n - 1)}

Agency(short, refs, kids) ==
    [name |-> <<short, short>>, short_name |-> <<short>>,
     display_name |-> <<IF short = "a" THEN "A" ELSE "B", short>>,
     cfr_references |-> refs, children |-> kids]
RosterResponses ==
    {[ok |-> FALSE, agencies |-> <<>>], [ok |-> TRUE, agencies |-> <<>>]}
    \cup {[ok |-> TRUE, agencies |-> <<Agency("a", refs[1], <<>>), Agency("b", refs[2], <<>>)>>] :
             refs \in {<< <<1>>, <<1>> >>, << <<2, 1>>, <<2>> >>, << <<1>>, <<>> >>}}
    \cup {[ok |-> TRUE, agencies |-> <<Agency("b", <<1>>, <<Agency("a", <<1>>, <<>>)>>)>>]}

InitAttribute ==
    /\ pc = "call"
    /\ call \in {[fn |-> "get_agency_word_counts", title_number |-> 1, content |-> t] :
                    t \in UNION {TokenTexts(k) : k \in 0..MaxTokens}}
    /\ upstream \in {<<r>> : r \in RosterResponses}
    /\ frame = <<>> /\ ret = <<>>
    /\ latest_date = 0 /\ structure = Null /\ content = <<>> /\ word_count = 0
    /\ avg_words_per_section = 0 /\ agency_counts = <<>> /\ versions = <<>>
    /\ corrections = <<>> /\ historical_data = <<>> /\ requests = <<>>

\* Lines 267-271: the roster is fetched; without content or agencies the call returns.
FetchAgencies ==
    /\ pc = "call" /\ call.fn = "get_agency_word_counts"
    /\ LET f == attributor_frame(call.title_number, call.content, upstream[1])
       IN  IF attributor_returns_early(f, call.content)
           THEN pc' = "returned" /\ ret' = <<>> /\ frame' = frame
           ELSE pc' = "sections" /\ ret' = ret /\ frame' = f
    /\ UNCHANGED <<call, upstream, locals, requests>>

ProcessSection ==
    /\ pc = "sections" /\ frame.i <= Len(frame.sections)
    /\ frame' = process_section(frame)
    /\ UNCHANGED <<pc, call, upstream, ret, locals, requests>>

ReturnCounts ==
    /\ pc = "sections" /\ frame.i > Len(frame.sections)
    /\ ret' = final_counts(frame)
    /\ pc' = "returned"
    /\ UNCHANGED <<call, upstream, frame, locals, requests>>

NextAttribute == FetchAgencies \/ ProcessSection \/ ReturnCounts
SpecAttribute == InitAttribute /\ [][NextAttribute]_vars

\* get_historical_changes over every short list of version dates and every pattern
\* of snapshot responses, one fetch a step.
Dates == {1, 2, 3}
DocOnePart == WithIdentifiers(Node("title", FALSE,
                  <<Node("part", FALSE, <<Node("section", FALSE, <<>>)>>)>>), <<>>)
DocTwoParts == WithIdentifiers(Node("title", FALSE,
                   <<Node("part", FALSE, <<Node("section", FALSE, <<>>),
                                           Node("section", TRUE, <<>>)>>),
                     Node("part", TRUE, <<>>)>>), <<>>)
SnapshotResponses ==
    {[ok |-> FALSE, raises |-> FALSE, data |-> Null],
     [ok |-> TRUE, raises |-> TRUE, data |-> Null],
     [ok |-> TRUE, raises |-> FALSE, data |-> DocOnePart],
     [ok |-> TRUE, raises |-> FALSE, data |-> DocTwoParts]}
SeqsOfLen(S, n) == [1..n -> S]
TitlesResponses(n) ==
    {[ok |-> FALSE, titles |-> <<>>], [ok |-> TRUE, titles |-> <<>>]}
    \cup {[ok |-> TRUE,
           titles |-> <<[number |-> n, latest_issue_date |-> 3, version_dates |-> ds]>>] :
             ds \in UNION {SeqsOfLen(Dates, k) : k \in 0..MaxDates}}

InitHistory ==
    /\ pc = "call"
    /\ call \in {[fn |-> "get_historical_changes", title_number |-> 1, cutoff_date |-> c] :
                    c \in {1, 2}}
    /\ \E t \in TitlesResponses(1) :
          LET n == Len(relevant_dates(title_info(t, 1), call.cutoff_date))
          IN  upstream \in {[titles |-> t, snapshots |-> r] :
                               r \in SeqsOfLen(SnapshotResponses, n)}
    /\ frame = <<>> /\ ret = <<>>
    /\ latest_date = 0 /\ structure = Null /\ content = <<>> /\ word_count = 0
    /\ avg_words_per_section = 0 /\ agency_counts = <<>> /\ versions = <<>>
    /\ corrections = <<>> /\ historical_data = <<>> /\ requests = <<>>

FetchVersionDates ==
    /\ pc = "call" /\ call.fn = "get_historical_changes"
    /\ IF historical_returns_early(upstream.titles, call.title_number)
       THEN pc' = "returned" /\ ret' = NoHistory /\ frame' = frame
       ELSE /\ pc' = "snapshots" /\ ret' = ret
            /\ frame' = historical_frame(upstream.titles, call.title_number, call.cutoff_date)
    /\ UNCHANGED <<call, upstream, locals, requests>>

FetchSnapshot ==
    /\ pc = "snapshots" /\ frame.i <= Len(frame.relevant_dates)
    /\ frame' = fetch_snapshot(frame, upstream.snapshots[frame.i])
    /\ UNCHANGED <<pc, call, upstream, ret, locals, requests>>

ReturnHistory ==
    /\ pc = "snapshots" /\ frame.i > Len(frame.relevant_dates)
    /\ ret' = historical_result(frame)
    /\ pc' = "returned"
    /\ UNCHANGED <<call, upstream, frame, locals, requests>>

NextHistory == FetchVersionDates \/ FetchSnapshot \/ ReturnHistory
SpecHistory == InitHistory /\ [][NextHistory]_vars

\* analyze_title(title_number) against every upstream behaviour of the sets below,
\* one call of a method of the service a step.
TitleNumbers == {1, 42}
CutoffDate == 2

LabelledNode(t, label, description, kids) ==
    [type |-> t, reserved |-> FALSE, identifier |-> <<>>, label |-> label,
     label_description |-> description, children |-> kids]
DocNoParts == LabelledNode("title", <<"T">>, <<"b">>, <<>>)
DocThreeSections ==
    WithIdentifiers(Node("title", FALSE,
        <<Node("part", FALSE, <<Node("section", FALSE, <<>>), Node("section", FALSE, <<>>)>>),
          Node("part", FALSE, <<Node("section", FALSE, <<>>)>>)>>), <<>>)
DocNoText == Node("title", FALSE, <<>>)
DocTwoWords == LabelledNode("title", <<"A", ",", " ", "b">>, <<>>, <<>>)
DocWithMarker ==
    LabelledNode("title", <<"A">>, <<>>,
        <<LabelledNode("section", <<"yo", "ngo", " ", "1", ".">>, <<"b">>, <<>>)>>)

Titles(n, dates) ==
    {[ok |-> FALSE, titles |-> <<>>],
     [ok |-> TRUE, titles |-> <<[number |-> n + 1, latest_issue_date |-> 3,
                                 version_dates |-> <<3>>]>>],
     [ok |-> TRUE, titles |-> <<[number |-> n, latest_issue_date |-> 0,
                                 version_dates |-> <<>>]>>],
     [ok |-> TRUE, titles |-> <<[number |-> n + 1, latest_issue_date |-> 1,
                                 version_dates |-> <<1>>],
                                [number |-> n, latest_issue_date |-> 3,
                                 version_dates |-> dates]>>]}

Documents(docs) ==
    {[ok |-> FALSE, raises |-> FALSE, data |-> Null],
     [ok |-> TRUE, raises |-> TRUE, data |-> Null]}
    \cup {[ok |-> TRUE, raises |-> FALSE, data |-> d] : d \in docs}

\* The titles response and, where the method gets that far, the document's.
DocumentFetches(n, docs) ==
    {[titles |-> t, response |-> r] :
        t \in {x \in Titles(n, <<3>>) : has_latest_date(n, x)}, r \in Documents(docs)}
    \cup {[titles |-> t, response |-> NoResponse] :
             t \in {x \in Titles(n, <<3>>) : ~has_latest_date(n, x)}}

VersionsResponses ==
    {[ok |-> TRUE, error |-> "", data |-> <<"v1", "v2">>],
     [ok |-> FALSE, error |-> "500 Server Error", data |-> <<>>],
     [ok |-> FALSE, error |-> "Connection refused", data |-> <<>>]}

Correction(d, refs) ==
    [error_corrected |-> d, corrective_action |-> "amended", cfr_references |-> refs,
     fr_citation |-> "fr", error_occurred |-> d - 1]
CorrectionsResponses ==
    {[ok |-> FALSE, raises |-> FALSE, data |-> <<>>],
     [ok |-> TRUE, raises |-> TRUE, data |-> <<>>],
     [ok |-> TRUE, raises |-> FALSE, data |-> <<>>],
     [ok |-> TRUE, raises |-> FALSE, data |-> <<Correction(1, <<"r1">>), Correction(2, <<>>)>>],
     [ok |-> TRUE, raises |-> FALSE,
      data |-> [i \in 1..6 |-> Correction(IF i < 4 THEN i ELSE i - 2, <<"r1", "r2">>)]]}

OrchestratorRosters(n) ==
    {[ok |-> FALSE, agencies |-> <<>>],
     [ok |-> TRUE, agencies |-> <<Agency("a", <<n>>, <<>>), Agency("b", <<n + 1>>, <<>>)>>]}

HistoryFetches(n) ==
    {[titles |-> t, snapshots |-> r] :
        t \in {[ok |-> FALSE, titles |-> <<>>]}, r \in {<<>>}}
    \cup {[titles |-> t, snapshots |-> r] :
             t \in {x \in Titles(n, <<3, 1, 2>>) : has_latest_date(n, x)},
             r \in SeqsOfLen({[ok |-> FALSE, raises |-> FALSE, data |-> Null],
                              [ok |-> TRUE, raises |-> FALSE, data |-> DocOnePart],
                              [ok |-> TRUE, raises |-> FALSE, data |-> DocTwoParts]}, 2)}

Request(method, url) == [by |-> method, url |-> url]

Init ==
    /\ pc = "latest_date"
    /\ call \in {[fn |-> "analyze_title", title_number |-> n] : n \in TitleNumbers}
    /\ upstream = <<>> /\ frame = <<>> /\ ret = <<>>
    /\ latest_date = 0 /\ structure = parse_structure(Null) /\ content = <<>>
    /\ word_count = 0 /\ avg_words_per_section = Zero /\ agency_counts = <<>>
    /\ versions = <<>> /\ corrections = <<>> /\ historical_data = NoHistory
    /\ requests = <<>>

\* The mutant: the failure is recorded and the sequence goes on to the aggregation.
Fails_and_goes_on(e) ==
    /\ ret' = error_report(call.title_number, e)
    /\ pc' = "history"

\* Lines 527-557: the except clause of analyze_title.
Fails(e) ==
    /\ ret' = error_report(call.title_number, e)
    /\ pc' = "done"

\* Line 461.
GetLatestUpdateDate ==
    /\ pc = "latest_date"
    /\ \E t \in Titles(call.title_number, <<3>>) :
          latest_date' = get_latest_update_date(call.title_number, t)
    /\ requests' = Append(requests, Request("get_latest_update_date", "titles"))
    /\ pc' = "structure"
    /\ UNCHANGED <<call, upstream, ret, frame, structure, content, word_count,
                   avg_words_per_section, agency_counts, versions, corrections,
                   historical_data>>

\* Lines 466-469.
GetTitleStructure ==
    /\ pc = "structure"
    /\ \E f \in DocumentFetches(call.title_number,
                    {Null, DocNoParts, DocOnePart, DocTwoParts, DocThreeSections}) :
          LET got == get_title_structure(call.title_number, f.titles, f.response)
          IN  /\ upstream' = upstream @@ ("structure" :> f)
              /\ requests' = requests
                    \o <<Request("get_title_structure", "titles")>>
                    \o (IF has_latest_date(call.title_number, f.titles)
                        THEN <<Request("get_title_structure", "structure")>> ELSE <<>>)
              /\ IF got.none
                 THEN Fails("Could not fetch title structure") /\ structure' = structure
                 ELSE structure' = got.value /\ pc' = "content" /\ ret' = ret
    /\ UNCHANGED <<call, frame, latest_date, content, word_count, avg_words_per_section,
                   agency_counts, versions, corrections, historical_data>>

\* Lines 472-475.
GetFullTitleContent ==
    /\ pc = "content"
    /\ \E f \in DocumentFetches(call.title_number,
                    {Null, DocNoText, DocNoParts, DocTwoWords, DocWithMarker}) :
          /\ upstream' = upstream @@ ("content" :> f)
          /\ requests' = requests
                \o <<Request("get_full_title_content", "titles")>>
                \o (IF has_latest_date(call.title_number, f.titles)
                    THEN <<Request("get_full_title_content", "structure")>> ELSE <<>>)
          /\ content' = get_full_title_content(call.title_number, f.titles, f.response)
    /\ word_count' = word_count_of(content')
    /\ avg_words_per_section' = average_of(word_count', structure)
    /\ pc' = "agencies"
    /\ UNCHANGED <<call, ret, frame, latest_date, structure, agency_counts, versions,
                   corrections, historical_data>>

\* Line 479.
GetAgencyWordCounts ==
    /\ pc = "agencies"
    /\ \E r \in OrchestratorRosters(call.title_number) :
          /\ upstream' = upstream @@ ("agencies" :> r)
          /\ agency_counts' = get_agency_word_counts(call.title_number, content, r)
    /\ requests' = Append(requests, Request("get_agencies", "agencies"))
    /\ pc' = "versions"
    /\ UNCHANGED <<call, ret, frame, latest_date, structure, content, word_count,
                   avg_words_per_section, versions, corrections, historical_data>>

\* Line 487.
GetTitleVersions ==
    /\ pc = "versions"
    /\ \E r \in VersionsResponses :
          LET got == get_title_versions(r)
          IN  /\ upstream' = upstream @@ ("versions" :> r)
              /\ IF got.raised
                 THEN Fails(got.error) /\ versions' = versions
                 ELSE versions' = got.value /\ pc' = "corrections" /\ ret' = ret
    /\ requests' = Append(requests, Request("get_title_versions", "versions"))
    /\ UNCHANGED <<call, frame, latest_date, structure, content, word_count,
                   avg_words_per_section, agency_counts, corrections, historical_data>>

\* Line 488.
GetTitleCorrections ==
    /\ pc = "corrections"
    /\ \E r \in CorrectionsResponses :
          LET got == get_title_corrections(r)
          IN  /\ upstream' = upstream @@ ("corrections" :> r)
              /\ IF got.raised
                 THEN Fails(got.error) /\ corrections' = corrections
                 ELSE corrections' = got.value /\ pc' = "history" /\ ret' = ret
    /\ requests' = Append(requests, Request("get_title_corrections", "corrections"))
    /\ UNCHANGED <<call, frame, latest_date, structure, content, word_count,
                   avg_words_per_section, agency_counts, versions, historical_data>>

\* Line 489.
GetHistoricalChanges ==
    /\ pc = "history"
    /\ \E f \in HistoryFetches(call.title_number) :
          /\ upstream' = upstream @@ ("history" :> f)
          /\ historical_data' = get_historical_changes(call.title_number, CutoffDate,
                                                       f.titles, f.snapshots)
          /\ requests' = requests
                \o <<Request("get_historical_changes", "titles")>>
                \o [i \in 1..Len(f.snapshots) |->
                       Request("get_historical_changes", "structure")]
    /\ pc' = "analysis"
    /\ UNCHANGED <<call, ret, frame, latest_date, structure, content, word_count,
                   avg_words_per_section, agency_counts, versions, corrections>>

\* Lines 491-525.
ReturnAnalysis ==
    /\ pc = "analysis"
    /\ ret' = analysis(call.title_number)
    /\ pc' = "done"
    /\ UNCHANGED <<call, upstream, frame, locals, requests>>

Next ==
    \/ GetLatestUpdateDate \/ GetTitleStructure \/ GetFullTitleContent
    \/ GetAgencyWordCounts \/ GetTitleVersions \/ GetTitleCorrections
    \/ GetHistoricalChanges \/ ReturnAnalysis
Spec == Init /\ [][Next]_vars

\* ------------------------------------------------------------------ claims
Returned(fn) == pc = "returned" /\ call.fn = fn

\* The document with every reserved section turned into a plain container.
RECURSIVE ReservedSectionsAsContainers(_)
ReservedSectionsAsContainers(node) ==
    [node EXCEPT !.type = IF node.type = "section" /\ node.reserved THEN "subpart" ELSE @,
                 !.children = [i \in 1..Len(node.children) |->
                                 ReservedSectionsAsContainers(node.children[i])]]

LiveSections(tree) ==
    {p \in Paths(tree) : NodeAt(tree, p).type = "section" /\ ~NodeAt(tree, p).reserved}

C5_ReservedExcluded ==
    Returned("parse_structure") =>
        LET doc == call.structure_data IN
        /\ ret = parse_structure(ReservedSectionsAsContainers(doc))
        /\ ret.total_sections <= Cardinality(LiveSections(doc))
        /\ \A i \in 1..Len(ret.parts) :
              /\ ret.parts[i].sections <= Cardinality(LiveSections(doc))
              /\ ret.parts[i].number \in PartNodes(doc)
              /\ ~NodeAt(doc, ret.parts[i].number).reserved

C5_Witness ==
    /\ Returned("parse_structure")
    /\ \E p \in Paths(call.structure_data) :
          LET n == NodeAt(call.structure_data, p)
          IN  /\ n.type = "section" /\ n.reserved
              /\ \E q \in OutermostParts(call.structure_data) : IsPrefix(q, p)
    /\ \E p \in PartNodes(call.structure_data) :
          /\ NodeAt(call.structure_data, p).reserved
          /\ \E i \in 1..Len(ret.parts) : IsPrefix(p, ret.parts[i].number)

HasSpaceRun(s) == \E i \in 1..(Len(s) - 1) : s[i] = " " /\ s[i + 1] = " "

\* C6: the clean-up applied to its own output yields the same string, and the output
\* of one pass holds no run of two or more spaces.
C6_CleanUpIdempotent ==
    /\ (call.fn = "clean_up" /\ Len(ret) >= 1) => ~HasSpaceRun(ret[1])
    /\ Returned("clean_up") => ret[2] = ret[1]

\* The agencies of a roster, children included.
RECURSIVE AllAgencies(_)
AllAgencies(list) ==
    IF list = <<>> THEN {}
    ELSE {Head(list)} \cup AllAgencies(Head(list).children) \cup AllAgencies(Tail(list))

RECURSIVE RatSum(_)
RatSum(items) == IF items = <<>> THEN Zero ELSE RatAdd(Head(items).value, RatSum(Tail(items)))

\* What the log says agency k was credited with, over all sections.
RECURSIVE Credited(_, _)
Credited(log, k) ==
    IF log = <<>> THEN Zero
    ELSE RatAdd(DictGet(Head(log).credits, k, Zero), Credited(Tail(log), k))

InAttributor == call.fn = "get_agency_word_counts" /\ pc = "sections"

\* C7: in every section with a mention each mentioned agency is credited
\* mentions / total * words, the credits of a section sum to its word count, no agency
\* takes a whole section it shares, {A: 2, B: 1} in 30 words gives 20 and 10, and an
\* agency's count is the sum of its credits over the sections.
C7_ProportionalAllocation ==
    InAttributor =>
        /\ \A e \in 1..Len(frame.log) :
              LET m == frame.log[e].section_mentions
                  c == frame.log[e].credits
                  w == frame.log[e].section_words
                  total == SumSeq([j \in 1..Len(m) |-> m[j].value])
              IN  /\ DictKeys(c) = DictKeys(m)
                  /\ \A j \in 1..Len(m) :
                        LET x == DictGet(c, m[j].key, Zero)
                        IN  /\ x.n * total = m[j].value * w * x.d
                            /\ Len(m) > 1 => x.n < w * x.d
                  /\ m # <<>> => RatSum(c) = Rat(w, 1)
                  /\ (w = 30 /\ m = <<[key |-> <<"a">>, value |-> 2],
                                      [key |-> <<"b">>, value |-> 1]>>)
                        => c = <<[key |-> <<"a">>, value |-> Rat(20, 1)],
                                 [key |-> <<"b">>, value |-> Rat(10, 1)]>>
        /\ \A k \in DictKeys(frame.relevant_agencies) :
              DictGet(frame.agency_word_counts, k, Zero) = Credited(frame.log, k)

C7_Witness ==
    /\ InAttributor
    /\ \E e \in 1..Len(frame.log) :
          /\ frame.log[e].section_words = 30
          /\ frame.log[e].section_mentions = <<[key |-> <<"a">>, value |-> 2],
                                               [key |-> <<"b">>, value |-> 1]>>
          /\ DictGet(frame.agency_word_counts, <<"a">>, Zero) = Rat(20, 1)

\* Credits from two sections add up.
C7_AccumulatesAcrossSections ==
    /\ InAttributor
    /\ \E k \in DictKeys(frame.agency_word_counts) :
          Cardinality({e \in 1..Len(frame.log) : DictHas(frame.log[e].credits, k)}) > 1

\* A whole-word, case-insensitive occurrence of one of the agency's names in a section.
Mentioned(agency, text) ==
    LET sections == split_sections(text)
    IN  \E v \in {agency.name, agency.short_name, agency.display_name} :
            /\ v # <<>>
            /\ \E n \in 1..Len(sections) :
                  \E i \in 1..Len(sections[n]) : MatchAt(sections[n], v, i)

RefersTo(agency, title_number) ==
    \E r \in 1..Len(agency.cfr_references) : agency.cfr_references[r] = title_number

\* C8: the result has an entry, keyed by display name, for exactly the agencies of the
\* roster that refer to the title and are mentioned in the content.
C8_EntriesIffRelevantAndMentioned ==
    Returned("get_agency_word_counts") =>
        LET roster == IF upstream[1].ok THEN AllAgencies(upstream[1].agencies) ELSE {}
        IN  /\ \A a \in roster :
                  DictHas(ret, a.display_name)
                      <=> (RefersTo(a, call.title_number) /\ Mentioned(a, call.content))
            /\ DictKeys(ret) \subseteq {a.display_name : a \in roster}

C8_Witness ==
    /\ Returned("get_agency_word_counts")
    /\ \E a, b \in AllAgencies(upstream[1].agencies) :
          /\ DictHas(ret, a.display_name)
          /\ ~RefersTo(b, call.title_number) /\ Mentioned(b, call.content)
          /\ ~DictHas(ret, b.display_name)

\* The snapshots fetched with success, as (date, sections, parts), by position.
Fetched(dates, responses) ==
    {i \in 1..Len(dates) : responses[i].ok /\ ~responses[i].raises}
PointOf(dates, responses, i) ==
    <<dates[i], count_sections(responses[i].data), count_parts(responses[i].data)>>

\* C10: the three arrays are equally long, dates ascend, the entries at one index are
\* the date and counts of one fetched snapshot, and a failed fetch adds nothing.
C10_ParallelAscendingArrays ==
    Returned("get_historical_changes") =>
        LET ds == frame.relevant_dates
            rs == upstream.snapshots
            n == Len(ret.dates)
            out(i) == <<ret.dates[i], ret.section_counts[i], ret.part_counts[i]>>
        IN  /\ Len(ret.section_counts) = n /\ Len(ret.part_counts) = n
            /\ \A i \in 1..(n - 1) : ret.dates[i] <= ret.dates[i + 1]
            /\ frame # <<>> =>
                  /\ n = Cardinality(Fetched(ds, rs))
                  /\ \A i \in 1..n :
                        Cardinality({j \in 1..n : out(j) = out(i)})
                            = Cardinality({j \in Fetched(ds, rs) :
                                              PointOf(ds, rs, j) = out(i)})
            /\ frame = <<>> => n = 0

C10_Witness ==
    /\ Returned("get_historical_changes")
    /\ frame # <<>>
    /\ Len(ret.dates) = 2 /\ ret.dates[1] < ret.dates[2]
    /\ ret.section_counts[1] # ret.section_counts[2]
    /\ Len(frame.relevant_dates) = 3
    /\ frame.relevant_dates[1] > frame.relevant_dates[3]
    /\ ~upstream.snapshots[2].ok

\* analyze_title has returned, and what the upstream did on the way.
Done == call.fn = "analyze_title" /\ pc = "done"
Asked(what) == what \in DOMAIN upstream
DocumentFetched(what) ==
    /\ Asked(what)
    /\ has_latest_date(call.title_number, upstream[what].titles)
    /\ upstream[what].response.ok /\ ~upstream[what].response.raises
StructureFailed == Asked("structure") /\ ~DocumentFetched("structure")
VersionsFailed == Asked("versions") /\ ~upstream["versions"].ok
ReportKeys == {"title_number", "name", "structure", "metrics", "historical_data",
               "versions", "corrections"}
Range(seq) == {seq[i] : i \in 1..Len(seq)}

\* C1: analyze_title always returns a report (no step leaves it stuck or raising), and
\* when the structure comes back null or the versions fetch raises, the report is the
\* zero report of the title: number n, name "Title n", zero totals and metrics, empty
\* arrays, a non-empty error, and nothing of what the earlier steps computed.
C1_FailureGivesZeroReport ==
    /\ call.fn = "analyze_title" => (pc = "done" \/ ENABLED Next)
    /\ (Done /\ (StructureFailed \/ VersionsFailed)) =>
          /\ DOMAIN ret = ReportKeys \cup {"error"}
          /\ ret.error # ""
          /\ ret.title_number = call.title_number
          /\ ret.name = <<"T", "i", "t", "l", "e", " ">>
                            \o (IF call.title_number = 42 THEN <<"4", "2">> ELSE <<"1">>)
          /\ ret.structure = [total_parts |-> 0, total_sections |-> 0, parts |-> <<>>]
          /\ ret.metrics = [word_count |-> 0, average_words_per_section |-> Zero,
                            agency_word_counts |-> <<>>]
          /\ ret.historical_data = NoHistory
          /\ ret.versions.total_versions = 0
          /\ ret.corrections = [total_corrections |-> 0, recent_corrections |-> <<>>]

C1_Witness ==
    /\ Done /\ VersionsFailed
    /\ call.title_number = 42
    /\ structure.total_sections > 0 /\ word_count > 0 /\ agency_counts # <<>>
    /\ ret.metrics.word_count = 0

\* C2: with the structure and the versions fetched, a failure of the content, roster,
\* corrections or a snapshot fetch gives no 'error': the report carries the totals of
\* the fetched tree, the failed part defaulted (word_count 0, agency_word_counts
\* empty, total_corrections 0, the date left out) and the other parts as fetched.
C2_GracefulDegradation ==
    (Done /\ DocumentFetched("structure") /\ Asked("versions") /\ ~VersionsFailed) =>
        LET n == call.title_number
            parsed == parse_structure(upstream["structure"].response.data)
            text == DocumentContent(upstream["content"].response.data)
            roster == upstream["agencies"]
            corr == upstream["corrections"]
            hist == upstream["history"]
            asked == relevant_dates(title_info(hist.titles, n), CutoffDate)
        IN  /\ "error" \notin DOMAIN ret
            /\ ret.structure = [total_parts |-> parsed.total_parts,
                                total_sections |-> parsed.total_sections,
                                parts |-> parsed.parts]
            /\ IF DocumentFetched("content")
               THEN ret.metrics.word_count = WordCount(text)
               ELSE ret.metrics.word_count = 0 /\ ret.metrics.agency_word_counts = <<>>
            /\ ~roster.ok => ret.metrics.agency_word_counts = <<>>
            /\ (roster.ok /\ DocumentFetched("content")) =>
                  \A a \in AllAgencies(roster.agencies) :
                      DictHas(ret.metrics.agency_word_counts, a.display_name)
                          <=> (RefersTo(a, n) /\ Mentioned(a, text))
            /\ IF corr.ok /\ ~corr.raises
                     /\ \A i \in 1..Len(corr.data) : corr.data[i].cfr_references # <<>>
               THEN ret.corrections.total_corrections = Len(corr.data)
               ELSE ret.corrections = [total_corrections |-> 0, recent_corrections |-> <<>>]
            /\ IF hist.titles.ok
               THEN /\ \A i \in 1..Len(asked) :
                          asked[i] \in Range(ret.historical_data.dates)
                              <=> hist.snapshots[i].ok
                    /\ Len(ret.historical_data.dates)
                          = Cardinality({i \in 1..Len(asked) : hist.snapshots[i].ok})
               ELSE ret.historical_data = NoHistory

C2_Witness ==
    /\ Done /\ DocumentFetched("structure") /\ Asked("versions") /\ ~VersionsFailed
    /\ ret.structure.total_sections = 3
    /\ ~DocumentFetched("content")
    /\ ~upstream["agencies"].ok
    /\ ~upstream["corrections"].ok
    /\ Len(upstream["history"].snapshots) = 2
    /\ ~upstream["history"].snapshots[1].ok /\ upstream["history"].snapshots[2].ok
    /\ ret.historical_data.dates = <<2>>

\* C3: every report has every derived field, as a number or a collection; a report
\* of the failure path has the key 'error' besides, and no other difference in keys.
C3_EveryFieldPresent ==
    Done =>
        /\ DOMAIN ret = IF StructureFailed \/ VersionsFailed
                        THEN ReportKeys \cup {"error"} ELSE ReportKeys
        /\ DOMAIN ret.structure = {"total_parts", "total_sections", "parts"}
        /\ DOMAIN ret.metrics = {"word_count", "average_words_per_section",
                                 "agency_word_counts"}
        /\ DOMAIN ret.historical_data = {"dates", "section_counts", "part_counts"}
        /\ DOMAIN ret.versions = {"total_versions", "latest_update"}
        /\ DOMAIN ret.corrections = {"total_corrections", "recent_corrections"}
        /\ ret.structure.total_parts \in Nat /\ ret.structure.total_sections \in Nat
        /\ ret.structure.total_parts <= Len(ret.structure.parts)
        /\ ret.metrics.word_count \in Nat
        /\ ret.metrics.average_words_per_section.n \in Nat
        /\ Len(ret.metrics.agency_word_counts) \in Nat
        /\ Len(ret.historical_data.dates) = Len(ret.historical_data.section_counts)
        /\ Len(ret.historical_data.dates) = Len(ret.historical_data.part_counts)
        /\ ret.versions.total_versions = Len(ret.historical_data.dates)
        /\ ret.corrections.total_corrections \in Nat
        /\ Len(ret.corrections.recent_corrections) <= 5
        /\ Len(ret.corrections.recent_corrections) <= ret.corrections.total_corrections

C3_Witness ==
    /\ Done /\ VersionsFailed
    /\ "error" \in DOMAIN ret
    /\ structure.total_sections > 0

\* C9: the reported average is word_count / max(total_sections, 1) to the nearest
\* hundredth; the divisor is never 0, no sections divide by 1, and the reported
\* total_sections is still the parser's (0 stays 0).
C9_AverageWordsPerSection ==
    /\ (call.fn = "analyze_title" /\ pc # "done") => total_sections_or_1(structure) >= 1
    /\ (Done /\ ~StructureFailed /\ ~VersionsFailed) =>
          LET wc == ret.metrics.word_count
              ts == ret.structure.total_sections
              avg == ret.metrics.average_words_per_section
              hundredths == (avg.n * 100) \div avg.d
              off == hundredths * Max(ts, 1) - 100 * wc
          IN  /\ (avg.n * 100) % avg.d = 0
              /\ 2 * off <= Max(ts, 1) /\ -2 * off <= Max(ts, 1)
              /\ ts = parse_structure(upstream["structure"].response.data).total_sections
              /\ ts = 0 => avg = Rat(wc, 1)

C9_Witness ==
    /\ Done /\ ~StructureFailed /\ ~VersionsFailed
    /\ ret.structure.total_sections = 0
    /\ ret.metrics.word_count > 0
    /\ ret.metrics.average_words_per_section = Rat(ret.metrics.word_count, 1)

\* The average is not always a whole number: 0.67 is reached.
C9_RoundsToHundredths ==
    Done /\ ~StructureFailed /\ ~VersionsFailed
        /\ ret.metrics.average_words_per_section = Rat(67, 100)

\* The non-reserved part nodes that lie under a non-reserved part node.
NestedParts(tree) ==
    {p \in PartNodes(tree) :
        /\ ~NodeAt(tree, p).reserved
        /\ \E q \in PartNodes(tree) : IsPrefix(q, p) /\ ~NodeAt(tree, q).reserved}

ListedNumbers == {ret.parts[i].number : i \in 1..Len(ret.parts)}

\* C11 as stated: when a non-reserved part has a non-reserved part among its
\* descendants, the outer and the inner part are both entries of 'parts'.
C11_NestedPartsListed ==
    Returned("parse_structure") =>
        \A p \in NestedParts(call.structure_data) :
            \A q \in PartNodes(call.structure_data) :
                (IsPrefix(q, p) /\ ~NodeAt(call.structure_data, q).reserved) =>
                    {p, q} \subseteq ListedNumbers

\* What the code does instead: the outermost part is an entry, no part below it is.
C11_NestedPartsHidden ==
    Returned("parse_structure") =>
        /\ ListedNumbers = OutermostParts(call.structure_data)
        /\ ListedNumbers \cap NestedParts(call.structure_data) = {}

\* Lines 208-209: the text of the fetched document before it is cleaned up.
RawText(structure_data) == JoinNonEmpty(extract_text(structure_data))

\* The places of a text where a section marker starts (the marker itself, not the
\* newlines the pattern lets go before it).
MarkerStarts(text) == {i \in SplitPoints(text) : text[i] = "yo"}

AgencyStepDone == call.fn = "analyze_title" /\ Asked("agencies") /\ DocumentFetched("content")

\* C12 as stated: in analyze_title a document whose text holds a section marker with
\* words before it is processed as more than one segment, and no agency is credited
\* with the words of the whole title.
C12_SplitsAtSectionMarkers ==
    AgencyStepDone =>
        LET raw == RawText(upstream["content"].response.data)
            k == Cardinality(MarkerStarts(raw))
        IN  (k >= 1 /\ \E i \in MarkerStarts(raw) : WordCount(SubSeq(raw, 1, i - 1)) > 0) =>
                /\ Len(split_sections(content)) > 1
                /\ \A a \in DictKeys(agency_counts) :
                      DictGet(agency_counts, a, 0) < word_count

\* What the code does instead: the cleaned text has no period left, so the pattern of
\* line 287 matches nowhere and the attributor always works on one segment.
C12_CleanedContentIsOneSegment ==
    call.fn = "analyze_title" =>
        /\ \A i \in 1..Len(content) : ~IsPunct(content[i])
        /\ SplitPoints(content) = {}
        /\ Len(split_sections(content)) = 1

\* The methods of the service in the order analyze_title calls them (lines 461-489).
StepOrder ==
    <<"get_latest_update_date", "get_title_structure", "get_full_title_content",
      "get_agencies", "get_title_versions", "get_title_corrections",
      "get_historical_changes">>
StepIndex(by) == CHOOSE i \in 1..Len(StepOrder) : StepOrder[i] = by
StepsStarted == {StepIndex(requests[i].by) : i \in 1..Len(requests)}

\* C13: the requests of a run are issued in the order latest date, structure,
\* content, agencies, versions, corrections, history, none skipped; the word count
\* is computed before the attribution; and once the structure fetch or the versions
\* fetch has failed the run is over and no later step has issued a request.
C13_StepsInOrder ==
    call.fn = "analyze_title" =>
        /\ \A i, j \in 1..Len(requests) :
              i < j => StepIndex(requests[i].by) <= StepIndex(requests[j].by)
        /\ \E n \in 0..Len(StepOrder) : StepsStarted = 1..n
        /\ Asked("agencies") => word_count = word_count_of(content)
        /\ StructureFailed => (pc = "done" /\ StepsStarted = 1..2)
        /\ VersionsFailed => (pc = "done" /\ StepsStarted = 1..5)
        /\ (pc = "done" /\ ~StructureFailed /\ ~VersionsFailed) =>
              StepsStarted = 1..Len(StepOrder)
        /\ pc = "done" => ~ENABLED Next

C13_Witness ==
    /\ Done /\ StructureFailed
    /\ \E i \in 1..Len(requests) : requests[i] = Request("get_title_structure", "structure")
    /\ "error" \in DOMAIN ret

\* A whole run issues requests of all seven steps.
C13_WholeRun == Done /\ StepsStarted = 1..Len(StepOrder) /\ Len(requests) > Len(StepOrder)

\* Every section node of the tree has a part node above it.
SectionsUnderParts(tree) ==
    \A p \in Paths(tree) :
        NodeAt(tree, p).type = "section" => \E q \in PartNodes(tree) : IsPrefix(q, p)

LiveParts(tree) == {p \in PartNodes(tree) : ~NodeAt(tree, p).reserved}

\* C14 as stated: a reserved section or part adds nothing to a date's counts, so each
\* returned point carries, for a fetched snapshot of its date whose sections all lie
\* under parts, the Structure Parser's total_sections and the number of its
\* non-reserved parts.
C14_HistoricalCountsExcludeReserved ==
    (Returned("get_historical_changes") /\ frame # <<>>) =>
        \A i \in 1..Len(ret.dates) :
            \E j \in Fetched(frame.relevant_dates, upstream.snapshots) :
                LET doc == upstream.snapshots[j].data
                IN  /\ frame.relevant_dates[j] = ret.dates[i]
                    /\ SectionsUnderParts(doc) =>
                          ret.section_counts[i] = parse_structure(doc).total_sections
                    /\ ret.part_counts[i] = Cardinality(LiveParts(doc))

\* What the code does instead: every node of type section or part is counted,
\* reserved or not.
C14_HistoricalCountsEveryNode ==
    (Returned("get_historical_changes") /\ frame # <<>>) =>
        \A i \in 1..Len(ret.dates) :
            \E j \in Fetched(frame.relevant_dates, upstream.snapshots) :
                LET doc == upstream.snapshots[j].data
                IN  /\ frame.relevant_dates[j] = ret.dates[i]
                    /\ ret.section_counts[i] =
                          Cardinality({p \in Paths(doc) : NodeAt(doc, p).type = "section"})
                    /\ ret.part_counts[i] = Cardinality(PartNodes(doc))

====
